---- MODULE Spec2Model ----
(***************************************************************************)
(* rejoin_slice (src/src/lib.rs): joining two slices, mutable slices or    *)
(* string slices that are adjacent in memory.                              *)
(*                                                                         *)
(* Memory is a flat array of bytes at addresses 1..MemTop (0 is null).     *)
(* A view is a fat pointer: start address, length in elements, and the     *)
(* kind of reference ("shared" = &[T], "mut" = &mut [T], "str" = &str).    *)
(* The element type T of `impl<T> SliceExt for [T]` is represented by its  *)
(* size in bytes, elemSize, which may be zero (a zero-sized type).         *)
(***************************************************************************)
EXTENDS Integers, Sequences, FiniteSets, TLC

VARIABLES
    mem,             \* the bytes of memory: [1..MemTop -> byte]
    elemSize,        \* size_of::<T>() of this run's element type
    overflowChecks,  \* the build: TRUE = overflow checks on (debug), FALSE = wrapping (release)
    a, b,            \* self and other of the last call
    op,              \* the method called ("init" before the call)
    calls,           \* how many times it has been called
    res,             \* what the last call returned
    live,            \* TRUE while the merged &mut view returned by the last call is alive
    usable,          \* which of the caller's handles "a", "b" the borrow checker lets it use
    wrote            \* the write made through the merged view

vars == <<mem, elemSize, overflowChecks, a, b, op, calls, res, live, usable, wrote>>

----------------------------------------------------------------------------
(* Bounds of the model *)

UsizeBits == 3
MemSize == 5
MaxElemSize == 2

----------------------------------------------------------------------------
(* Machine integers and memory *)

RECURSIVE Pow2(_)
Pow2(n) == IF n = 0 THEN 1 ELSE 2 * Pow2(n - 1)

UsizeMod == Pow2(UsizeBits)
UsizeMax == UsizeMod - 1

\* The last byte address of memory; one past it must still be an address.
MemTop == IF MemSize < UsizeMax THEN MemSize ELSE UsizeMax - 1

Addrs == 1..MemTop

ElemSizes == 0..MaxElemSize

\* "abcdefg..." as in the str tests: one-byte characters, all distinct.
AsciiMem == [p \in Addrs |-> 96 + p]

\* U+00E9 "a" U+20AC repeated: two-, one- and three-byte characters.
MultiByteText == <<195, 169, 97, 226, 130, 172>>
MultiMem == [p \in Addrs |-> MultiByteText[((p - 1) % 6) + 1]]

WriteBytes == {35, 122}

\* Whether the byte sequence s is well-formed UTF-8 from position i on
\* (the validity invariant every &str carries).
Cont(x) == x >= 128 /\ x <= 191

RECURSIVE Utf8From(_, _)
Utf8From(s, i) ==
    IF i > Len(s) THEN TRUE
    ELSE LET c == s[i]
             n == Len(s) - i
         IN  IF c < 128 THEN Utf8From(s, i + 1)
             ELSE IF c >= 194 /\ c <= 223
                  THEN n >= 1 /\ Cont(s[i + 1]) /\ Utf8From(s, i + 2)
             ELSE IF c >= 224 /\ c <= 239
                  THEN /\ n >= 2
                       /\ Cont(s[i + 1])
                       /\ (c = 224 => s[i + 1] >= 160)
                       /\ (c = 237 => s[i + 1] <= 159)
                       /\ Cont(s[i + 2])
                       /\ Utf8From(s, i + 3)
             ELSE IF c >= 240 /\ c <= 244
                  THEN /\ n >= 3
                       /\ Cont(s[i + 1])
                       /\ (c = 240 => s[i + 1] >= 144)
                       /\ (c = 244 => s[i + 1] <= 143)
                       /\ Cont(s[i + 2])
                       /\ Cont(s[i + 3])
                       /\ Utf8From(s, i + 4)
             ELSE FALSE

Utf8Valid(s) == Utf8From(s, 1)

----------------------------------------------------------------------------
(* Views *)

View(p, n, t) == [addr |-> p, len |-> n, ty |-> t]

NoView == View(0, 0, "none")

\* The views a caller can hold over elements of size sz: non-null, inside
\* memory; a view of zero-sized elements has any length a usize can hold.
Views(sz, t) ==
    { v \in [addr : 1..(MemTop + 1), len : 0..UsizeMax, ty : {t}] :
        sz > 0 => v.addr + v.len * sz <= MemTop + 1 }

\* The byte range [lo, hi) a view covers.
Lo(sz, v) == v.addr
Hi(sz, v) == v.addr + v.len * sz

Overlap(sz, x, y) == Lo(sz, x) < Hi(sz, y) /\ Lo(sz, y) < Hi(sz, x)

len(v) == v.len

as_ptr(v) == v.addr

\* Mutation: the tail `self[self_len..]` taken as `self[..]`.
SliceWhole(sz, v, from) == View(v.addr, v.len, v.ty)

\* self[from..]
SliceFrom(sz, v, from) == View(v.addr + from * sz, v.len - from, v.ty)

ptr_eq(p, q) == p = q

from_raw_parts(p, n) == View(p, n, "shared")

from_raw_parts_mut(p, n) == View(p, n, "mut")

as_bytes(s) == View(s.addr, s.len, "shared")

from_utf8_unchecked(v) == View(v.addr, v.len, "str")

\* v[i]: the bytes of element i (the empty tuple for a zero-sized element),
\* or the bounds-check panic.
Index(sz, v, i) ==
    IF i < v.len
    THEN [ok |-> TRUE, val |-> [j \in 1..sz |-> mem[v.addr + i * sz + (j - 1)]]]
    ELSE [ok |-> FALSE, val |-> <<>>]

\* The bytes of a byte or string view.
Bytes(v) == [j \in 1..v.len |-> mem[v.addr + (j - 1)]]

----------------------------------------------------------------------------
(* Results *)

Some(v) == [kind |-> "Some", view |-> v, msg |-> ""]
None == [kind |-> "None", view |-> NoView, msg |-> ""]
Ref(v) == [kind |-> "Ref", view |-> v, msg |-> ""]
Panic(m) == [kind |-> "Panic", view |-> NoView, msg |-> m]
Idle == [kind |-> "Idle", view |-> NoView, msg |-> ""]

SliceMsg == "the input slices must be adjacent in memory"
StrMsg == "the input string slices must be adjacent in memory"
OverflowMsg == "attempt to add with overflow"

----------------------------------------------------------------------------
(* usize arithmetic: `self.len() + other.len()` *)

AddOverflows(x, y) == x + y > UsizeMax

wrapping_add(x, y) == (x + y) % UsizeMod

----------------------------------------------------------------------------
(* impl<T> SliceExt for [T] *)

\* Mutation: `unwrap_or_default()` in place of `expect(..)`.
unwrap_or_default(opt, m) ==
    IF opt.kind = "None" THEN Ref(View(1, 0, "shared"))
    ELSE IF opt.kind = "Some" THEN Ref(opt.view)
    ELSE opt

expect(opt, m) ==
    IF opt.kind = "None" THEN Panic(m)
    ELSE IF opt.kind = "Some" THEN Ref(opt.view)
    ELSE opt

\* Mutation: the joined length forgets `other.len()`.
try_rejoin_short(sz, self, other) ==
    LET self_len == len(self)
        self_end == as_ptr(SliceFrom(sz, self, self_len))
    IN  IF ptr_eq(self_end, as_ptr(other))
        THEN Some(from_raw_parts(as_ptr(self), len(self)))
        ELSE None

try_rejoin(sz, self, other) ==
    LET self_len == len(self)
        self_end == as_ptr(SliceFrom(sz, self, self_len))
    IN  IF ptr_eq(self_end, as_ptr(other))
        THEN IF overflowChecks /\ AddOverflows(len(self), len(other))
             THEN Panic(OverflowMsg)
             ELSE Some(from_raw_parts(as_ptr(self), wrapping_add(len(self), len(other))))
        ELSE None

\* Mutation: the joined view starts at `other.as_mut_ptr()`.
try_rejoin_mut_from_other(sz, self, other) ==
    LET self_len == len(self)
        self_end == as_ptr(SliceFrom(sz, self, self_len))
    IN  IF ptr_eq(self_end, as_ptr(other))
        THEN Some(from_raw_parts_mut(as_ptr(other), wrapping_add(len(self), len(other))))
        ELSE None

try_rejoin_mut(sz, self, other) ==
    LET self_len == len(self)
        self_end == as_ptr(SliceFrom(sz, self, self_len))
    IN  IF ptr_eq(self_end, as_ptr(other))
        THEN IF overflowChecks /\ AddOverflows(len(self), len(other))
             THEN Panic(OverflowMsg)
             ELSE Some(from_raw_parts_mut(as_ptr(self), wrapping_add(len(self), len(other))))
        ELSE None

rejoin(sz, self, other) == expect(try_rejoin(sz, self, other), SliceMsg)

rejoin_mut(sz, self, other) == expect(try_rejoin_mut(sz, self, other), SliceMsg)

----------------------------------------------------------------------------
(* impl StrExt for str *)

\* Option::map
map_from_utf8_unchecked(opt) ==
    IF opt.kind = "Some" THEN Some(from_utf8_unchecked(opt.view)) ELSE opt

\* Mutation: `other` is never looked at.
str_try_rejoin_self(self, other) ==
    map_from_utf8_unchecked(try_rejoin(1, as_bytes(self), as_bytes(self)))

str_try_rejoin(self, other) ==
    map_from_utf8_unchecked(try_rejoin(1, as_bytes(self), as_bytes(other)))

str_rejoin(self, other) == expect(str_try_rejoin(self, other), StrMsg)

----------------------------------------------------------------------------
(* The borrow the signature states: the returned &'r mut [T] keeps the     *)
(* reborrows of `&'r mut self` and `&'r mut other` alive.                   *)

IsMutView(r) == r.kind \in {"Some", "Ref"} /\ r.view.ty = "mut"

\* Mutation: the returned lifetime is not tied to the inputs' borrows.
Unbounded(r) == FALSE

Reborrowed(r) == IsMutView(r)

NoWrite == [done |-> FALSE, idx |-> 0, val |-> <<>>, before |-> <<>>]

BothHandles == {"a", "b"}

----------------------------------------------------------------------------
(* The state machine: one caller, one pair of inputs per run.  The caller  *)
(* makes a call, may make the same call a second time, and may write once  *)
(* through a merged &mut view and drop it.                                 *)

SliceOps == {"try_rejoin", "rejoin"}
MutOps == {"try_rejoin_mut", "rejoin_mut"}
StrOps == {"str_try_rejoin", "str_rejoin"}
TryOps == {"try_rejoin", "try_rejoin_mut", "str_try_rejoin"}

\* What the method `name` returns on (x, y).
Invoke(name, x, y) ==
    CASE name = "try_rejoin" -> try_rejoin(elemSize, x, y)
      [] name = "rejoin" -> rejoin(elemSize, x, y)
      [] name = "try_rejoin_mut" -> try_rejoin_mut(elemSize, x, y)
      [] name = "rejoin_mut" -> rejoin_mut(elemSize, x, y)
      [] name = "str_try_rejoin" -> str_try_rejoin(x, y)
      [] name = "str_rejoin" -> str_rejoin(x, y)

Init ==
    /\ mem \in {AsciiMem, MultiMem}
    /\ elemSize \in ElemSizes
    /\ overflowChecks \in BOOLEAN
    /\ a = NoView
    /\ b = NoView
    /\ op = "init"
    /\ calls = 0
    /\ res = Idle
    /\ live = FALSE
    /\ usable = BothHandles
    /\ wrote = NoWrite

\* Mutation: the call clears the byte at the start of `self`.
CallClobbering(name, x, y) ==
    /\ ~live
    /\ a' = x
    /\ b' = y
    /\ op' = name
    /\ calls' = calls + 1
    /\ res' = Invoke(name, x, y)
    /\ live' = IsMutView(res')
    /\ usable' = IF Reborrowed(res') THEN {} ELSE BothHandles
    /\ mem' = [p \in Addrs |-> IF p = x.addr THEN 0 ELSE mem[p]]
    /\ UNCHANGED <<elemSize, overflowChecks, wrote>>

\* The call name(x, y).
Call(name, x, y) ==
    /\ ~live
    /\ a' = x
    /\ b' = y
    /\ op' = name
    /\ calls' = calls + 1
    /\ res' = Invoke(name, x, y)
    /\ live' = IsMutView(res')
    /\ usable' = IF Reborrowed(res') THEN {} ELSE BothHandles
    /\ UNCHANGED <<mem, elemSize, overflowChecks, wrote>>

TryRejoin ==
    /\ op = "init"
    /\ \E x, y \in Views(elemSize, "shared") : Call("try_rejoin", x, y)

Rejoin ==
    /\ op = "init"
    /\ \E x, y \in Views(elemSize, "shared") : Call("rejoin", x, y)

\* Two &mut views held at once never overlap.
TryRejoinMut ==
    /\ op = "init"
    /\ \E x, y \in Views(elemSize, "mut") :
          /\ ~Overlap(elemSize, x, y)
          /\ Call("try_rejoin_mut", x, y)

RejoinMut ==
    /\ op = "init"
    /\ \E x, y \in Views(elemSize, "mut") :
          /\ ~Overlap(elemSize, x, y)
          /\ Call("rejoin_mut", x, y)

\* Every &str is valid UTF-8.
StrTryRejoin ==
    /\ op = "init"
    /\ \E x, y \in Views(1, "str") :
          /\ Utf8Valid(Bytes(x))
          /\ Utf8Valid(Bytes(y))
          /\ Call("str_try_rejoin", x, y)

StrRejoin ==
    /\ op = "init"
    /\ \E x, y \in Views(1, "str") :
          /\ Utf8Valid(Bytes(x))
          /\ Utf8Valid(Bytes(y))
          /\ Call("str_rejoin", x, y)

\* The same call once more, on the same inputs.
Again ==
    /\ op \in SliceOps \cup MutOps \cup StrOps
    /\ calls = 1
    /\ ~wrote.done
    /\ Call(op, a, b)

\* The caller writes element i through the merged &mut view
\* (copy_from_slice in the tests).
Write ==
    /\ live
    /\ ~wrote.done
    /\ \E i \in 0..(res.view.len - 1), byte \in WriteBytes :
          /\ mem' = [p \in Addrs |->
                       IF /\ p >= res.view.addr + i * elemSize
                          /\ p < res.view.addr + (i + 1) * elemSize
                       THEN byte ELSE mem[p]]
          /\ wrote' = [done |-> TRUE, idx |-> i,
                       val |-> [j \in 1..elemSize |-> byte], before |-> mem]
    /\ UNCHANGED <<elemSize, overflowChecks, a, b, op, calls, res, live, usable>>

\* The merged view goes out of scope; the caller's handles are usable again.
Drop ==
    /\ live
    /\ live' = FALSE
    /\ usable' = BothHandles
    /\ UNCHANGED <<mem, elemSize, overflowChecks, a, b, op, calls, res, wrote>>

Next ==
    \/ TryRejoin
    \/ Rejoin
    \/ TryRejoinMut
    \/ RejoinMut
    \/ StrTryRejoin
    \/ StrRejoin
    \/ Again
    \/ Write
    \/ Drop

Spec == Init /\ [][Next]_vars

----------------------------------------------------------------------------
(* Vocabulary of the properties *)

\* The element size the last call worked with: str is a view of bytes.
OpSize == IF op \in StrOps THEN 1 ELSE elemSize

\* The adjacency relation: address(x) + length(x) * element_size = address(y).
Adjacent(sz, x, y) == x.addr + x.len * sz = y.addr

SameSpan(v, w) == v.addr = w.addr /\ v.len = w.len

Buffers(sz) == Views(sz, "shared")

\* x = bf[..k] and y = bf[k..] for the buffer bf and the split point k.
IsSplit(sz, bf, k, x, y) ==
    /\ x.addr = bf.addr
    /\ x.len = k
    /\ y.addr = bf.addr + k * sz
    /\ y.len = bf.len - k

\* The only buffer x and y can be the two parts of (split at k = x.len).
Whole(x, y) == View(x.addr, x.len + y.len, "shared")

\* x and y are the two parts bf[..k], bf[k..] of some buffer bf, 0 <= k <= len(bf).
SplitOfBuffer(sz, x, y) ==
    /\ Whole(x, y) \in Buffers(sz)
    /\ IsSplit(sz, Whole(x, y), x.len, x, y)

\* x = bf[..i] and y = bf[j..] of some buffer bf of sized elements, with
\* i < j: the elements i..j-1 are skipped.
GapInBuffer(sz, x, y) ==
    /\ sz > 0
    /\ y.addr > x.addr + x.len * sz
    /\ (y.addr - x.addr) % sz = 0
    /\ View(x.addr, ((y.addr - x.addr) \div sz) + y.len, "shared") \in Buffers(sz)

ByteSize(sz, v) == v.len * sz

\* The try_ form of the last call, on the same inputs.
TryForm ==
    CASE op = "rejoin" -> try_rejoin(elemSize, a, b)
      [] op = "rejoin_mut" -> try_rejoin_mut(elemSize, a, b)
      [] op = "str_rejoin" -> str_try_rejoin(a, b)

ExpectMsg == IF op = "str_rejoin" THEN StrMsg ELSE SliceMsg

----------------------------------------------------------------------------
(* C1 *)

\* C1: adjacency round trip. Whenever the inputs of try_rejoin / rejoin are
\* the two parts bf[..k] and bf[k..] of a buffer bf, for any k in 0..len(bf),
\* try_rejoin returns Some and rejoin returns (no panic) a view with the
\* address and the length of bf.
C1_RoundTrip ==
    op \in SliceOps =>
        (SplitOfBuffer(elemSize, a, b) =>
            /\ res.kind = (IF op = "try_rejoin" THEN "Some" ELSE "Ref")
            /\ SameSpan(res.view, Whole(a, b)))

\* A non-empty buffer of sized elements split at its end (k = N) and rejoined.
C1_Witness ==
    /\ op = "rejoin"
    /\ elemSize > 0
    /\ b.len = 0
    /\ a.len > 1
    /\ SplitOfBuffer(elemSize, a, b)
    /\ res.kind = "Ref"

----------------------------------------------------------------------------
(* C2 *)

\* C2: try_rejoin(a, b) returns Some exactly when
\* address(a) + length(a) * element_size = address(b); the view it returns
\* starts at address(a) and has length(a) + length(b) elements; in every
\* other case it returns None.
C2_AdjacencyIff ==
    op = "try_rejoin" =>
        /\ (res.kind = "Some" <=> Adjacent(elemSize, a, b))
        /\ (res.kind = "Some" =>
                /\ res.view.addr = a.addr
                /\ res.view.len = a.len + b.len)
        /\ (~Adjacent(elemSize, a, b) => res = None)

\* What is left of C2 when the sum of the lengths fits a usize.
C2_AdjacencyIffNoOverflow ==
    (op = "try_rejoin" /\ ~AddOverflows(a.len, b.len)) =>
        /\ (res.kind = "Some" <=> Adjacent(elemSize, a, b))
        /\ (res.kind = "Some" =>
                /\ res.view.addr = a.addr
                /\ res.view.len = a.len + b.len)
        /\ (~Adjacent(elemSize, a, b) => res = None)

\* The inputs on which the sum of the lengths does not fit: adjacent views
\* of zero-sized elements.
C2_OverflowOnlyZeroSized ==
    (op = "try_rejoin" /\ Adjacent(elemSize, a, b) /\ AddOverflows(a.len, b.len)) =>
        /\ elemSize = 0
        /\ res = (IF overflowChecks
                  THEN Panic(OverflowMsg)
                  ELSE Some(View(a.addr, a.len + b.len - UsizeMod, "shared")))

----------------------------------------------------------------------------
(* C3 *)

\* C3: content preservation. Whenever try_rejoin(a, b) returns a view r,
\* every index i with 0 <= i < length(a) + length(b) can be read through r
\* and r[i] is a[i] for i < length(a) and b[i - length(a)] otherwise; for
\* the two parts of one buffer, r[i] is the buffer's element i.
C3_ContentPreserved ==
    (op = "try_rejoin" /\ res.kind = "Some") =>
        /\ \A i \in 0..(a.len + b.len - 1) :
              Index(elemSize, res.view, i) =
                  (IF i < a.len THEN Index(elemSize, a, i)
                                ELSE Index(elemSize, b, i - a.len))
        /\ (SplitOfBuffer(elemSize, a, b) =>
              \A i \in 0..(Whole(a, b).len - 1) :
                  Index(elemSize, res.view, i) = Index(elemSize, Whole(a, b), i))

\* What is left of C3 when the sum of the lengths fits a usize.
C3_ContentPreservedNoOverflow ==
    (op = "try_rejoin" /\ res.kind = "Some" /\ ~AddOverflows(a.len, b.len)) =>
        \A i \in 0..(a.len + b.len - 1) :
            Index(elemSize, res.view, i) =
                (IF i < a.len THEN Index(elemSize, a, i)
                              ELSE Index(elemSize, b, i - a.len))

----------------------------------------------------------------------------
(* C4 *)

----------------------------------------------------------------------------
(* C5 *)

\* Whether the inputs are joinable the other way round: `other` is
\* immediately followed by `self` in memory.
ReversedOrder == Adjacent(OpSize, b, a)

Rejected == IF op \in TryOps THEN res = None ELSE res = Panic(ExpectMsg)

\* C5 as stated: whenever b is immediately followed by a in memory, the
\* swapped call on (a, b) returns None (the fail-fast forms panic), for the
\* immutable, mutable and str variants.
C5_ReversedRejected ==
    (op # "init" /\ ReversedOrder) => Rejected

\* C5 amended: whenever b is immediately followed by a in memory and the two
\* views are not both zero bytes long, the swapped call on (a, b) returns
\* None (the fail-fast forms panic), for the immutable, mutable and str
\* variants.
C5_ReversedRejectedNonEmpty ==
    (/\ op # "init"
     /\ ReversedOrder
     /\ ByteSize(OpSize, a) + ByteSize(OpSize, b) > 0) => Rejected

\* try_rejoin_mut on the halves of a split, passed in the wrong order.
C5_Witness ==
    /\ op = "try_rejoin_mut"
    /\ ReversedOrder
    /\ elemSize > 0
    /\ a.len > 0
    /\ b.len > 0
    /\ res = None

----------------------------------------------------------------------------
(* C6 *)

\* C6: mutable write-through. After try_rejoin_mut / rejoin_mut has joined
\* the halves bf[..k] and bf[k..] of a buffer bf (any k in 0..len(bf)), a
\* write of element i through the returned view is what bf[i] reads
\* afterwards, and no byte outside the merged range has changed.
C6_WriteThrough ==
    (op \in MutOps /\ wrote.done) =>
        (SplitOfBuffer(elemSize, a, b) =>
            /\ Index(elemSize, Whole(a, b), wrote.idx) = [ok |-> TRUE, val |-> wrote.val]
            /\ \A p \in Addrs :
                  (p < Lo(elemSize, Whole(a, b)) \/ p >= Hi(elemSize, Whole(a, b))) =>
                      mem[p] = wrote.before[p])

\* A write through the view joined from the halves of split_at_mut(0), into
\* the second half, of elements of non-zero size.
C6_Witness ==
    /\ op = "rejoin_mut"
    /\ wrote.done
    /\ elemSize > 0
    /\ a.len = 0
    /\ b.len > 1
    /\ SplitOfBuffer(elemSize, a, b)
    /\ wrote.idx = 1
    /\ mem # wrote.before

----------------------------------------------------------------------------
(* C7 *)

\* The writable views the caller can use at this moment, by handle.
Writable ==
    (IF op \in MutOps THEN usable ELSE {}) \cup (IF live THEN {"merged"} ELSE {})

ViewOf(h) == IF h = "a" THEN a ELSE IF h = "b" THEN b ELSE res.view

----------------------------------------------------------------------------
(* C8 *)

\* C8: text encoding preservation. str try_rejoin(a, b) returns Some exactly
\* when try_rejoin on the bytes of a and b does; the bytes of the result are
\* the bytes of a followed by the bytes of b, and they are valid UTF-8; for
\* the two parts of one string the result is that string.
C8_TextPreserved ==
    op = "str_try_rejoin" =>
        /\ (res.kind = "Some" <=>
                try_rejoin(1, as_bytes(a), as_bytes(b)).kind = "Some")
        /\ res.kind \in {"Some", "None"}
        /\ (res.kind = "Some" =>
                /\ res.view.ty = "str"
                /\ res.view.addr + res.view.len <= MemTop + 1
                /\ Bytes(res.view) = Bytes(a) \o Bytes(b)
                /\ Utf8Valid(Bytes(res.view)))
        /\ (SplitOfBuffer(1, a, b) => res = Some(from_utf8_unchecked(Whole(a, b))))

\* Two non-empty strings joined, the first ending in a multi-byte character.
C8_Witness ==
    /\ op = "str_try_rejoin"
    /\ res.kind = "Some"
    /\ a.len > 1
    /\ b.len > 0
    /\ mem[a.addr + a.len - 1] >= 128

----------------------------------------------------------------------------
(* C9 *)

----------------------------------------------------------------------------
(* C10 *)

\* C10 as stated: two zero-length views at different addresses are never
\* adjacent (try_rejoin returns None); try_rejoin(a, a) returns Some only
\* when length(a) is zero, and a non-empty view joined with itself returns
\* None.
C10_ZeroLengthAndSelf ==
    op \in {"try_rejoin", "str_try_rejoin"} =>
        /\ (a.len = 0 /\ b.len = 0 /\ a.addr # b.addr) => res = None
        /\ (SameSpan(a, b) /\ res.kind = "Some") => a.len = 0
        /\ (SameSpan(a, b) /\ a.len > 0) => res = None

\* C10 amended: two zero-length views at different addresses are never
\* adjacent (try_rejoin returns None); try_rejoin(a, a) returns Some only
\* when a is zero bytes long (length(a) * element_size = 0), and a view of
\* non-zero byte size joined with itself returns None.
C10_ZeroBytesAndSelf ==
    op \in {"try_rejoin", "str_try_rejoin"} =>
        /\ (a.len = 0 /\ b.len = 0 /\ a.addr # b.addr) => res = None
        /\ (SameSpan(a, b) /\ res.kind = "Some") => ByteSize(OpSize, a) = 0
        /\ (SameSpan(a, b) /\ ByteSize(OpSize, a) > 0) => res = None

\* A non-empty view of sized elements joined with itself.
C10_Witness ==
    /\ op = "try_rejoin"
    /\ elemSize > 0
    /\ a.len > 0
    /\ SameSpan(a, b)
    /\ res = None

====
